---- MODULE Spec2Model ----
(***************************************************************************)
(* A model of qualyspy's VMDR reports dispatch (vmdr/reports.py) and of    *)
(* the Detection record (vmdr/data_classes/detection.py).                  *)
(*                                                                         *)
(* The library is stateless between calls: every public function takes its *)
(* arguments, performs at most one call_api round trip and returns or      *)
(* raises.  The state of the model is therefore the last invocation: which *)
(* function ran (op), what it was given (input), the transport calls it    *)
(* made (calls) and how it ended (outcome).                                *)
(*                                                                         *)
(* Python values are tagged records ("t" is the Python type).  A str is a  *)
(* sequence of tokens: a digit, sign, blank or markup character is a token *)
(* of its own, any other token stands for a run of ordinary text.          *)
(* call_api and xml_parser are collaborators outside these sources: what   *)
(* the transport answers, already parsed, is an input of each action.      *)
(***************************************************************************)
EXTENDS Integers, Sequences, FiniteSets, TLC

VARIABLES op, input, calls, outcome

vars == <<op, input, calls, outcome>>

(***************************************************************************)
(* Bounds of the model.                                                    *)
(***************************************************************************)
MaxReports == 2     \* longest REPORT / REPORT_TEMPLATE list in a reply
MaxFactors == 2     \* longest QDS_FACTOR list in a detection mapping
MaxOptional == 2    \* most keys of a detection mapping beyond the five without a default

(***************************************************************************)
(* Python values.                                                          *)
(***************************************************************************)
PyNone == [t |-> "none"]
PyStr(s) == [t |-> "str", s |-> s]
PyInt(n) == [t |-> "int", n |-> n]
PyBool(b) == [t |-> "bool", b |-> b]
PyDict(d) == [t |-> "dict", d |-> d]
PyList(l) == [t |-> "list", l |-> l]

\* A raised exception, as a value that propagates through the operators.
Raise(exc, msg) == [t |-> "exc", exc |-> exc, msg |-> msg]

IsExc(v) == v.t = "exc"

\* node[key] for a str key: KeyError on a mapping without the key, TypeError
\* on a value that is no mapping; an exception already raised propagates.
GetItem(node, key) ==
    CASE IsExc(node) -> node
      [] node.t = "dict" ->
            IF key \in DOMAIN node.d
            THEN node.d[key]
            ELSE Raise("KeyError", PyStr(<<key>>))
      [] OTHER -> Raise("TypeError", PyStr(<<node.t>>))

RECURSIVE GetPath(_, _)
\* node[k1][k2]...[kn], evaluated left to right.
GetPath(node, path) ==
    IF path = <<>> THEN node
    ELSE GetPath(GetItem(node, Head(path)), Tail(path))

(***************************************************************************)
(* int(): base-10 parsing of a str, as Python does it.                     *)
(***************************************************************************)
Digits == {"0", "1", "2", "3", "4", "5", "6", "7", "8", "9"}

DigitVal(c) ==
    CASE c = "0" -> 0 [] c = "1" -> 1 [] c = "2" -> 2 [] c = "3" -> 3
      [] c = "4" -> 4 [] c = "5" -> 5 [] c = "6" -> 6 [] c = "7" -> 7
      [] c = "8" -> 8 [] c = "9" -> 9

RECURSIVE StripLeft(_)
StripLeft(s) ==
    IF s # <<>> /\ Head(s) = " " THEN StripLeft(Tail(s)) ELSE s

RECURSIVE StripRight(_)
StripRight(s) ==
    IF s # <<>> /\ s[Len(s)] = " " THEN StripRight(SubSeq(s, 1, Len(s) - 1)) ELSE s

RECURSIVE DigitsValue(_, _)
\* The value of a run of digits, most significant first.
DigitsValue(s, acc) ==
    IF s = <<>> THEN acc
    ELSE DigitsValue(Tail(s), 10 * acc + DigitVal(Head(s)))

\* int(v)
PyIntOf(v) ==
    CASE IsExc(v) -> v
      [] v.t = "int" -> v
      [] v.t = "bool" -> PyInt(IF v.b THEN 1 ELSE 0)
      [] v.t = "str" ->
            LET body == StripRight(StripLeft(v.s))
                signed == body # <<>> /\ Head(body) \in {"+", "-"}
                digits == IF signed THEN Tail(body) ELSE body
                ok == digits # <<>> /\ \A i \in 1..Len(digits) : digits[i] \in Digits
            IN  IF ~ok THEN Raise("ValueError", v)
                ELSE IF signed /\ Head(body) = "-"
                     THEN PyInt(0 - DigitsValue(digits, 0))
                     ELSE PyInt(DigitsValue(digits, 0))
      [] OTHER -> Raise("TypeError", PyStr(<<v.t>>))

(***************************************************************************)
(* Keyword arguments are mappings from names to values.                    *)
(***************************************************************************)
\* kwargs[key] = value
SetItem(kwargs, key, value) ==
    [k \in (DOMAIN kwargs) \cup {key} |-> IF k = key THEN value ELSE kwargs[k]]

\* An argument of call_api that the caller leaves out.
Omitted == [t |-> "omitted"]

headers == PyDict("X-Requested-With" :> PyStr(<<"qualyspy SDK">>))

\* One call of the transport.
call_api(module, endpoint, params, payload, hdrs) ==
    [module |-> module, endpoint |-> endpoint, params |-> params,
     payload |-> payload, headers |-> hdrs]

\* manage_reports with the list call issued a second time, as a retry would:
\* the one-call property must tell it from manage_reports.
manage_reports_retrying(action, kwargs, reply) ==
    LET kw == SetItem(SetItem(kwargs, "action", PyStr(<<action>>)),
                      "echo_request", PyBool(FALSE))
        list == call_api("vmdr", "get_report_list", kw, Omitted, headers)
    IN  CASE action = "list" -> [calls |-> <<list, list>>, result |-> reply]
          [] action = "launch" ->
                [calls |-> <<call_api("vmdr", "launch_report", Omitted, kw, headers)>>,
                 result |-> reply]
          [] OTHER ->
                [calls |-> <<>>,
                 result |-> Raise("NotImplementedError", PyStr(<<action>>))]

\* manage_reports with a default case that forwards the action to the
\* transport instead of rejecting it.
manage_reports_forwarding(action, kwargs, reply) ==
    LET kw == SetItem(SetItem(kwargs, "action", PyStr(<<action>>)),
                      "echo_request", PyBool(FALSE))
    IN  CASE action = "list" ->
                [calls |-> <<call_api("vmdr", "get_report_list", kw, Omitted, headers)>>,
                 result |-> reply]
          [] action = "launch" ->
                [calls |-> <<call_api("vmdr", "launch_report", Omitted, kw, headers)>>,
                 result |-> reply]
          [] OTHER ->
                [calls |-> <<call_api("vmdr", action, Omitted, kw, headers)>>,
                 result |-> reply]

\* manage_reports(auth, action, **kwargs) with `reply` what the transport
\* answers: the calls it makes and what it returns or raises.
manage_reports(action, kwargs, reply) ==
    LET kw == SetItem(SetItem(kwargs, "action", PyStr(<<action>>)),
                      "echo_request", PyBool(FALSE))
    IN  CASE action = "list" ->
                [calls |-> <<call_api("vmdr", "get_report_list", kw, Omitted, headers)>>,
                 result |-> reply]
          [] action = "launch" ->
                [calls |-> <<call_api("vmdr", "launch_report", Omitted, kw, headers)>>,
                 result |-> reply]
          [] OTHER ->
                [calls |-> <<>>,
                 result |-> Raise("NotImplementedError", PyStr(<<action>>))]

(***************************************************************************)
(* Records built from the mappings of a reply.  VMDRReport, ReportTemplate *)
(* and BaseList live in data_classes modules outside these sources; they   *)
(* are modelled from the record rules of the specification: the identifier *)
(* is required and coerced to an integer, the rest is carried over.        *)
(***************************************************************************)
RecordFromDict(kind, m) ==
    CASE IsExc(m) -> m
      [] m.t # "dict" -> Raise("TypeError", PyStr(<<m.t>>))
      [] "ID" \notin DOMAIN m.d -> Raise("ValueError", PyStr(<<"ID">>))
      [] OTHER ->
            LET id == PyIntOf(m.d["ID"])
            IN  IF IsExc(id) THEN id
                ELSE [t |-> kind, ID |-> id,
                      TITLE |-> IF "TITLE" \in DOMAIN m.d THEN m.d["TITLE"] ELSE PyNone]

VMDRReport_from_dict(m) == RecordFromDict("VMDRReport", m)

ReportTemplate_from_dict(m) == RecordFromDict("ReportTemplate", m)

\* cls.from_dict(m) for the record class named kind.
from_dict(kind, m) ==
    IF kind = "VMDRReport" THEN VMDRReport_from_dict(m) ELSE ReportTemplate_from_dict(m)

BaseList(l) == [t |-> "BaseList", l |-> l]

RECURSIVE AppendEach(_, _, _)
\* for x in nodes: bl.append(from_dict(x)), with kind naming the record
\* class; the first exception ends the loop and propagates.
AppendEach(kind, nodes, bl) ==
    IF nodes = <<>> THEN BaseList(bl)
    ELSE LET rec == from_dict(kind, Head(nodes))
         IN  IF IsExc(rec) THEN rec
             ELSE AppendEach(kind, Tail(nodes), Append(bl, rec))

\* The result node left as the parser gave it, a bare mapping not wrapped.
WrapSingle_skipped(node) == node

\* if isinstance(node, dict): node = [node]
WrapSingle(node) ==
    IF node.t = "dict" THEN PyList(<<node>>) ELSE node

\* The loop over a (wrapped) result node.
ForEachRecord(kind, node) ==
    CASE IsExc(node) -> node
      [] node.t = "list" -> AppendEach(kind, node.l, <<>>)
      [] OTHER -> Raise("TypeError", PyStr(<<node.t>>))

\* get_report_list(auth, **kwargs)
get_report_list(kwargs, reply) ==
    LET response == manage_reports("list", kwargs, reply)
        data == response.result
        reports == GetPath(data, <<"REPORT_LIST_OUTPUT", "RESPONSE", "REPORT_LIST", "REPORT">>)
    IN  [calls |-> response.calls,
         result |-> IF IsExc(reports) THEN reports
                    ELSE ForEachRecord("VMDRReport", WrapSingle(reports))]

\* get_template_list(auth)
get_template_list(reply) ==
    LET data == reply
        templates == GetPath(data, <<"REPORT_TEMPLATE_LIST", "REPORT_TEMPLATE">>)
    IN  [calls |-> <<call_api("vmdr", "get_template_list", Omitted, Omitted, headers)>>,
         result |->
            CASE IsExc(data) -> data
              [] data.t # "dict" -> Raise("TypeError", PyStr(<<data.t>>))
              [] "SIMPLE_RETURN" \in DOMAIN data.d ->
                    LET text == GetPath(data, <<"SIMPLE_RETURN", "RESPONSE", "TEXT">>)
                    IN  IF IsExc(text) THEN text ELSE Raise("QualysAPIError", text)
              [] IsExc(templates) -> templates
              [] OTHER -> ForEachRecord("ReportTemplate", WrapSingle(templates))]

\* launch_report without its except clause: the KeyError of a missing
\* identifier escapes.
launch_report_without_except(template_id, kwargs, reply) ==
    LET kw == SetItem(kwargs, "template_id", template_id)
        response == manage_reports("launch", kw, reply)
        data == response.result
        value == GetPath(data, <<"SIMPLE_RETURN", "RESPONSE", "ITEM_LIST", "ITEM", "VALUE">>)
    IN  [calls |-> response.calls,
         result |-> IF IsExc(data) THEN data ELSE PyIntOf(value)]

\* launch_report(auth, template_id, **kwargs)
launch_report(template_id, kwargs, reply) ==
    LET kw == SetItem(kwargs, "template_id", template_id)
        response == manage_reports("launch", kw, reply)
        data == response.result
        value == GetPath(data, <<"SIMPLE_RETURN", "RESPONSE", "ITEM_LIST", "ITEM", "VALUE">>)
        text == GetPath(data, <<"SIMPLE_RETURN", "RESPONSE", "TEXT">>)
    IN  [calls |-> response.calls,
         result |->
            CASE IsExc(data) -> data
              [] IsExc(value) /\ value.exc = "KeyError" ->
                    IF IsExc(text) THEN text ELSE Raise("QualysAPIError", text)
              [] OTHER -> PyIntOf(value)]

(***************************************************************************)
(* The Detection record.  A Detection is [t |-> "Detection", f |-> fields] *)
(* with fields a mapping from the declared field names to values.          *)
(***************************************************************************)
\* The dataclass fields, in declaration order.
DetectionFields ==
    <<"UNIQUE_VULN_ID", "QID", "TYPE", "SEVERITY", "STATUS", "SSL", "RESULTS",
      "FIRST_FOUND_DATETIME", "LAST_FOUND_DATETIME", "QDS", "QDS_FACTORS",
      "TIMES_FOUND", "LAST_TEST_DATETIME", "LAST_UPDATE_DATETIME", "IS_IGNORED",
      "IS_DISABLED", "LAST_PROCESSED_DATETIME", "LAST_FIXED_DATETIME", "PORT",
      "PROTOCOL", "FQDN">>

FieldNames == {DetectionFields[i] : i \in 1..Len(DetectionFields)}

\* Fields declared without a default: __init__ cannot do without them.
NoDefault == {"UNIQUE_VULN_ID", "QID", "TYPE", "SEVERITY", "STATUS"}

\* The declared default of a field that has one.
Default(name) ==
    CASE name \in {"SSL", "IS_IGNORED", "IS_DISABLED"} -> PyBool(FALSE)
      [] name = "RESULTS" -> PyStr(<<>>)
      [] name = "TIMES_FOUND" -> PyInt(0)
      [] OTHER -> PyNone

\* The compared fields had STATUS not been declared compare=False.
CompareFields_with_status == <<"QID", "TYPE", "SEVERITY", "STATUS">>

\* Fields that take part in the generated __eq__ and ordering methods
\* (those not declared compare=False), in declaration order.
CompareFields == <<"QID", "TYPE", "SEVERITY">>

DATETIME_FIELDS ==
    <<"FIRST_FOUND_DATETIME", "LAST_FOUND_DATETIME", "LAST_TEST_DATETIME",
      "LAST_UPDATE_DATETIME", "LAST_PROCESSED_DATETIME", "LAST_FIXED_DATETIME">>

HTML_FIELDS == <<"RESULTS">>

BOOL_FIELDS == <<"IS_IGNORED", "IS_DISABLED", "SSL">>

INT_FIELDS == <<"UNIQUE_VULN_ID", "QID", "SEVERITY", "TIMES_FOUND", "PORT">>

\* bool(v): Python truthiness.
Truthy(v) ==
    CASE v.t = "none" -> FALSE
      [] v.t = "bool" -> v.b
      [] v.t = "int" -> v.n # 0
      [] v.t = "str" -> v.s # <<>>
      [] v.t = "dict" -> DOMAIN v.d # {}
      [] v.t = "list" -> v.l # <<>>
      [] OTHER -> TRUE

IsLeap(y) == y % 4 = 0 /\ (y % 100 # 0 \/ y % 400 = 0)

DaysIn(y, m) ==
    CASE m \in {4, 6, 9, 11} -> 30
      [] m = 2 -> IF IsLeap(y) THEN 29 ELSE 28
      [] OTHER -> 31

AllDigits(s) == \A i \in 1..Len(s) : s[i] \in Digits

\* datetime.fromisoformat(v) on a calendar date YYYY-MM-DD; any other str is
\* rejected (the inputs of the model carry dates without a time of day).
fromisoformat(v) ==
    LET s == v.s
        shaped == /\ Len(s) = 10
                  /\ s[5] = "-" /\ s[8] = "-"
                  /\ AllDigits(SubSeq(s, 1, 4))
                  /\ AllDigits(SubSeq(s, 6, 7))
                  /\ AllDigits(SubSeq(s, 9, 10))
        y == DigitsValue(SubSeq(s, 1, 4), 0)
        m == DigitsValue(SubSeq(s, 6, 7), 0)
        d == DigitsValue(SubSeq(s, 9, 10), 0)
    IN  IF shaped /\ y >= 1 /\ m \in 1..12 /\ d >= 1 /\ d <= DaysIn(y, m)
        THEN [t |-> "datetime", year |-> y, month |-> m, day |-> d]
        ELSE Raise("ValueError", v)

RECURSIVE StripTags(_)
\* The visible text of a token sequence: a tag is "<", one name token, ">";
\* a "<" that opens no tag is text.
StripTags(s) ==
    IF s = <<>> THEN <<>>
    ELSE IF /\ Len(s) >= 3
            /\ s[1] = "<"
            /\ s[2] \notin {"<", ">", " "}
            /\ s[3] = ">"
         THEN StripTags(SubSeq(s, 4, Len(s)))
         ELSE <<Head(s)>> \o StripTags(Tail(s))

\* BeautifulSoup(v, "html.parser").get_text()
get_text(v) ==
    IF v.t = "str" THEN PyStr(StripTags(v.s)) ELSE Raise("TypeError", PyStr(<<v.t>>))

\* The conversion __post_init__ applies to one field of a group.
Coerce(kind, v) ==
    CASE kind = "datetime" -> IF v.t = "str" THEN fromisoformat(v) ELSE v
      [] kind = "html" -> get_text(v)
      [] kind = "bool" -> IF v.t # "bool" /\ v.t # "none" THEN PyBool(Truthy(v)) ELSE v
      [] kind = "int" -> IF v.t \notin {"int", "bool"} /\ v.t # "none" THEN PyIntOf(v) ELSE v

RECURSIVE CoerceFields(_, _, _)
\* for field in fields: setattr(self, field, convert(getattr(self, field)))
CoerceFields(self, kind, fields) ==
    IF IsExc(self) \/ fields = <<>> THEN self
    ELSE LET v == Coerce(kind, self.f[Head(fields)])
         IN  IF IsExc(v) THEN v
             ELSE CoerceFields([self EXCEPT !.f[Head(fields)] = v], kind, Tail(fields))

\* qds(SEVERITY=..., SCORE=...) and QDSFactor(NAME=..., VALUE=...): the
\* classes are outside these sources; each is the pair it is built from.
qds(severity, score) == [t |-> "QDS", SEVERITY |-> severity, SCORE |-> score]

QDSFactor(name, value) == [t |-> "QDSFactor", NAME |-> name, VALUE |-> value]

\* QDSFactor(NAME=factor["@name"], VALUE=factor["#text"])
FactorOf(factor) ==
    LET name == GetItem(factor, "@name")
        value == GetItem(factor, "#text")
    IN  CASE IsExc(name) -> name
          [] IsExc(value) -> value
          [] OTHER -> QDSFactor(name, value)

RECURSIVE FactorsOf(_, _)
\* [QDSFactor(...) for factor in factors]
FactorsOf(factors, acc) ==
    IF factors = <<>> THEN PyList(acc)
    ELSE LET one == FactorOf(Head(factors))
         IN  IF IsExc(one) THEN one
             ELSE FactorsOf(Tail(factors), Append(acc, one))

\* if self.QDS: self.QDS = qds(...)
ConvertQDS(self) ==
    IF IsExc(self) \/ ~Truthy(self.f["QDS"]) THEN self
    ELSE LET severity == GetItem(self.f["QDS"], "@severity")
             score == PyIntOf(GetItem(self.f["QDS"], "#text"))
         IN  CASE IsExc(severity) -> severity
               [] IsExc(score) -> score
               [] OTHER -> [self EXCEPT !.f["QDS"] = qds(severity, score)]

\* The QDS_FACTORS node converted to a list of QDSFactor.
NormalizeFactors(node) ==
    LET inner == GetItem(node, "QDS_FACTOR")
    IN  CASE IsExc(inner) -> inner
          [] inner.t = "list" -> FactorsOf(inner.l, <<>>)
          [] OTHER ->
                LET one == FactorOf(inner)
                IN  IF IsExc(one) THEN one ELSE PyList(<<one>>)

\* if self.QDS_FACTORS: self.QDS_FACTORS = [...]
ConvertFactors(self) ==
    IF IsExc(self) \/ ~Truthy(self.f["QDS_FACTORS"]) THEN self
    ELSE LET factors == NormalizeFactors(self.f["QDS_FACTORS"])
         IN  IF IsExc(factors) THEN factors
             ELSE [self EXCEPT !.f["QDS_FACTORS"] = factors]

\* Detection.__post_init__
post_init(self) ==
    ConvertFactors(ConvertQDS(
        CoerceFields(CoerceFields(CoerceFields(CoerceFields(self,
            "datetime", DATETIME_FIELDS),
            "html", HTML_FIELDS),
            "bool", BOOL_FIELDS),
            "int", INT_FIELDS)))

\* Detection(**data): the generated __init__, then __post_init__.
Detection(data) ==
    CASE DOMAIN data \ FieldNames # {} ->
            Raise("TypeError", PyStr(<<"unexpected keyword argument">>))
      [] NoDefault \ DOMAIN data # {} ->
            Raise("TypeError", PyStr(<<"missing required positional argument">>))
      [] OTHER ->
            post_init([t |-> "Detection",
                       f |-> [name \in FieldNames |->
                                IF name \in DOMAIN data THEN data[name]
                                ELSE Default(name)]])

required_keys == {"QID", "SEVERITY", "STATUS", "TYPE"}

\* from_dict without its check of the required keys.
Detection_from_dict_unchecked(data) == Detection(data)

\* Detection.from_dict(data)
Detection_from_dict(data) ==
    IF ~(required_keys \subseteq DOMAIN data)
    THEN Raise("ValueError", PyStr(<<"Dictionary must contain the following keys">>))
    ELSE Detection(data)

\* The keyword arguments that copy() passes to Detection(...).
CopyFields ==
    {"UNIQUE_VULN_ID", "QID", "TYPE", "SEVERITY", "SSL", "RESULTS", "STATUS",
     "FIRST_FOUND_DATETIME", "LAST_FOUND_DATETIME", "TIMES_FOUND",
     "LAST_TEST_DATETIME", "LAST_UPDATE_DATETIME", "LAST_FIXED_DATETIME",
     "IS_IGNORED", "IS_DISABLED", "LAST_PROCESSED_DATETIME", "QDS",
     "QDS_FACTORS", "PORT", "PROTOCOL"}

\* Detection.copy(): a Detection constructed anew from the fields of self,
\* so that __post_init__ runs on values it has converted before.
Detection_copy(self) ==
    Detection([name \in CopyFields |-> self.f[name]])

\* The keys of the mapping that to_dict() returns.
ToDictKeys ==
    {"UNIQUE_VULN_ID", "QID", "TYPE", "SEVERITY", "SSL", "RESULTS", "STATUS",
     "FIRST_FOUND_DATETIME", "LAST_FOUND_DATETIME", "TIMES_FOUND",
     "LAST_TEST_DATETIME", "LAST_UPDATE_DATETIME", "IS_IGNORED", "IS_DISABLED",
     "LAST_PROCESSED_DATETIME", "LAST_FIXED_DATETIME", "QDS", "QDS_FACTORS",
     "PORT", "PROTOCOL", "FQDN"}

\* Detection.to_dict()
to_dict(self) == [name \in ToDictKeys |-> self.f[name]]

\* d = Detection.from_dict(data); d.copy()
copy_of(data) ==
    LET original == Detection_from_dict(data)
        copied == IF IsExc(original) THEN original ELSE Detection_copy(original)
    IN  IF IsExc(copied) THEN copied
        ELSE [t |-> "copied", original |-> original, copy |-> copied]

(***************************************************************************)
(* Comparison of Detections: @dataclass(order=True) compares the tuples of *)
(* the fields that take part in comparison.                                *)
(***************************************************************************)
\* Text tokens in the order Python's str comparison gives them.
CodeOrder ==
    <<" ", "+", "-", "0", "1", "2", "3", "4", "5", "6", "7", "8", "9", "<", ">",
      "Active", "Confirmed", "Fixed", "New", "Potential", "Re-Opened">>

Rank(tok) == CHOOSE i \in 1..Len(CodeOrder) : CodeOrder[i] = tok

RECURSIVE TextLt(_, _)
\* s < t for two strs, token by token.
TextLt(s, t) ==
    CASE t = <<>> -> FALSE
      [] s = <<>> -> TRUE
      [] Head(s) = Head(t) -> TextLt(Tail(s), Tail(t))
      [] OTHER -> Rank(Head(s)) < Rank(Head(t))

IsNumber(v) == v.t \in {"int", "bool"}

NumberOf(v) == IF v.t = "int" THEN v.n ELSE IF v.b THEN 1 ELSE 0

\* x == y
PyEq(x, y) ==
    IF IsNumber(x) /\ IsNumber(y) THEN NumberOf(x) = NumberOf(y) ELSE x = y

\* x < y: a bool, or the TypeError of unorderable types.
PyLt(x, y) ==
    CASE IsNumber(x) /\ IsNumber(y) -> PyBool(NumberOf(x) < NumberOf(y))
      [] x.t = "str" /\ y.t = "str" -> PyBool(TextLt(x.s, y.s))
      [] OTHER -> Raise("TypeError", PyStr(<<"<", x.t, y.t>>))

\* The tuple of the fields of a Detection that are compared.
CompareKey(self) == [i \in 1..Len(CompareFields) |-> self.f[CompareFields[i]]]

RECURSIVE TupleEq(_, _)
TupleEq(a, b) ==
    IF a = <<>> THEN TRUE
    ELSE PyEq(Head(a), Head(b)) /\ TupleEq(Tail(a), Tail(b))

RECURSIVE TupleLt(_, _)
\* Tuples of one length: the first pair that differs decides.
TupleLt(a, b) ==
    CASE a = <<>> -> PyBool(FALSE)
      [] PyEq(Head(a), Head(b)) -> TupleLt(Tail(a), Tail(b))
      [] OTHER -> PyLt(Head(a), Head(b))

\* Detection.__eq__
Detection_eq(a, b) == PyBool(TupleEq(CompareKey(a), CompareKey(b)))

\* Detection.__lt__
Detection_lt(a, b) == TupleLt(CompareKey(a), CompareKey(b))

\* a == b, a < b and b < a for the Detections built from two mappings.
compare(m1, m2) ==
    LET a == Detection_from_dict(m1)
        b == Detection_from_dict(m2)
    IN  CASE IsExc(a) -> a
          [] IsExc(b) -> b
          [] OTHER ->
                LET lt == Detection_lt(a, b)
                    gt == Detection_lt(b, a)
                IN  CASE IsExc(lt) -> lt
                      [] IsExc(gt) -> gt
                      [] OTHER -> [t |-> "comparison", a |-> a, b |-> b,
                                   eq |-> Detection_eq(a, b).b,
                                   lt |-> lt.b, gt |-> gt.b]

(***************************************************************************)
(* Inputs: what callers pass and what the transport answers.               *)
(***************************************************************************)
\* All sequences over S of length at most n.
SeqsUpTo(S, n) == UNION {[1..k -> S] : k \in 0..n}

RECURSIVE MappingsOn(_, _)
\* All mappings with exactly the keys ks, each key valued among its choices.
MappingsOn(ks, choices) ==
    IF ks = {} THEN {<<>>}
    ELSE LET k == CHOOSE x \in ks : TRUE
         IN  {SetItem(m, k, v) : m \in MappingsOn(ks \ {k}, choices), v \in choices[k]}

\* All mappings over any subset of the keys that have choices.
KwargsOver(choices) ==
    UNION {MappingsOn(ks, choices) : ks \in SUBSET (DOMAIN choices)}

ListKwargs ==
    KwargsOver([id |-> {PyStr(<<"4", "2">>)},
                state |-> {PyStr(<<"Finished">>)},
                echo_request |-> {PyBool(TRUE)}])

LaunchKwargs ==
    KwargsOver([report_title |-> {PyStr(<<"Weekly">>)},
                hide_header |-> {PyBool(TRUE), PyBool(FALSE), PyStr(<<"0">>)},
                output_format |-> {PyStr(<<"pdf">>)}])

TemplateIds == {PyStr(<<"1", "0", "0", "1">>), PyInt(7)}

\* The action vocabulary of the reports resource, and a name outside it.
ReportActions == {"list", "launch", "cancel", "fetch", "delete"}
Actions == ReportActions \cup {"purge"}

NoReportsText == PyStr(<<"No reports matched your search criteria.">>)
Texts == {NoReportsText, PyStr(<<"Missing required parameter(s): template_id">>)}

DateTimeText == PyStr(<<"2", "0", "2", "4", "-", "0", "1", "-", "0", "2">>)

\* The generic envelope: <SIMPLE_RETURN><RESPONSE>...</RESPONSE></SIMPLE_RETURN>
SimpleReturn(response) ==
    PyDict([SIMPLE_RETURN |-> PyDict([RESPONSE |-> PyDict(response)])])

ReportMappings ==
    {PyDict([ID |-> PyStr(<<"4", "2">>), TITLE |-> PyStr(<<"Weekly">>)]),
     PyDict([ID |-> PyStr(<<"7">>), TITLE |-> PyStr(<<"Monthly">>)]),
     PyDict([ID |-> PyStr(<<"0", "7">>)])}

\* A repeatable element as the parser renders it: one mapping, or a list.
RepeatedNodes(maxLen) ==
    ReportMappings \cup {PyList(l) : l \in SeqsUpTo(ReportMappings, maxLen)}

ConnectionError == Raise("ConnectionError", PyStr(<<"transport">>))

SoftFailures == {SimpleReturn([DATETIME |-> DateTimeText, TEXT |-> x]) : x \in Texts}

\* A report list reply whose REPORT node is node.
ReportListOutput(node) ==
    PyDict([REPORT_LIST_OUTPUT |-> PyDict([RESPONSE |->
        PyDict([DATETIME |-> DateTimeText,
                REPORT_LIST |-> PyDict([REPORT |-> node])])])])

\* A template list reply whose REPORT_TEMPLATE node is node.
TemplateListOutput(node) ==
    PyDict([REPORT_TEMPLATE_LIST |-> PyDict([REPORT_TEMPLATE |-> node])])

ReportListReplies ==
    SoftFailures
    \cup {ReportListOutput(node) : node \in RepeatedNodes(MaxReports)}
    \cup {PyDict([REPORT_LIST_OUTPUT |-> PyDict([RESPONSE |->
              PyDict([DATETIME |-> DateTimeText])])]),
          PyDict([REPORT_LIST_OUTPUT |-> PyDict([RESPONSE |->
              PyDict([DATETIME |-> DateTimeText, REPORT_LIST |-> PyNone])])]),
          ConnectionError}

TemplateListReplies ==
    SoftFailures
    \cup {TemplateListOutput(node) : node \in RepeatedNodes(MaxReports)}
    \cup {PyDict([REPORT_TEMPLATE_LIST |-> PyNone]), ConnectionError}

ItemValues == {PyStr(<<"1", "2", "3", "4", "5">>), PyStr(<<"0", "8">>), PyStr(<<"n/a">>), PyNone}

Items ==
    {PyDict([KEY |-> PyStr(<<"ID">>), VALUE |-> v]) : v \in ItemValues}
    \cup {PyDict([KEY |-> PyStr(<<"ID">>)])}

ItemLists ==
    {PyDict([ITEM |-> i]) : i \in Items}
    \cup {PyDict([ITEM |-> PyList(<<i, i>>)]) : i \in Items}
    \cup {PyDict(<<>>), PyNone}

LaunchReplies ==
    SoftFailures
    \cup {SimpleReturn([DATETIME |-> DateTimeText, TEXT |-> x, ITEM_LIST |-> il])
            : x \in Texts, il \in ItemLists}
    \cup {SimpleReturn([DATETIME |-> DateTimeText, ITEM_LIST |-> il]) : il \in ItemLists}
    \cup {SimpleReturn([DATETIME |-> DateTimeText]),
          PyDict([SIMPLE_RETURN |-> PyNone]),
          PyDict([REPORT_LIST_OUTPUT |-> PyDict([RESPONSE |->
              PyDict([DATETIME |-> DateTimeText])])]),
          ConnectionError}

Text(tok) == PyStr(<<tok>>)

FactorA == PyDict(("@name" :> Text("A")) @@ ("#text" :> PyStr(<<"1">>)))
FactorB == PyDict(("@name" :> Text("B")) @@ ("#text" :> PyStr(<<"2">>)))
Factors == {FactorA, FactorB}

\* The QDS_FACTORS node: QDS_FACTOR is one mapping, or a list of them.
FactorNodes ==
    {PyDict([QDS_FACTOR |-> n]) :
        n \in Factors \cup {PyList(l) : l \in SeqsUpTo(Factors, MaxFactors)}}

QDSNode == PyDict(("@severity" :> PyStr(<<"2">>)) @@ ("#text" :> PyStr(<<"4", "5">>)))

\* What a detection mapping may hold under each key; EXTRA is a key that
\* Detection does not declare.
DetectionChoices ==
    [UNIQUE_VULN_ID |-> {PyStr(<<"9", "9">>)},
     QID |-> {PyStr(<<"1", "2", "3", "4", "5">>)},
     TYPE |-> {Text("Confirmed")},
     SEVERITY |-> {PyStr(<<"3">>)},
     STATUS |-> {Text("Active")},
     SSL |-> {PyStr(<<"1">>)},
     RESULTS |-> {PyStr(<<"<", "b", ">", "open", "<", "/b", ">">>)},
     FIRST_FOUND_DATETIME |-> {DateTimeText},
     LAST_FOUND_DATETIME |-> {DateTimeText},
     QDS |-> {QDSNode},
     QDS_FACTORS |-> FactorNodes,
     TIMES_FOUND |-> {PyStr(<<"5">>)},
     LAST_TEST_DATETIME |-> {DateTimeText},
     LAST_UPDATE_DATETIME |-> {DateTimeText},
     IS_IGNORED |-> {PyStr(<<"0">>)},
     IS_DISABLED |-> {PyStr(<<>>)},
     LAST_PROCESSED_DATETIME |-> {DateTimeText},
     LAST_FIXED_DATETIME |-> {DateTimeText},
     PORT |-> {PyStr(<<"4", "4", "3">>)},
     PROTOCOL |-> {Text("tcp")},
     FQDN |-> {Text("host.example.com")},
     EXTRA |-> {Text("x")}]

\* Keys beyond the five fields without a default.
OtherKeys == DOMAIN DetectionChoices \ NoDefault

\* The key sets of the detection mappings: any of the fields without a
\* default, with at most MaxOptional other keys, or with every other field.
DetectionKeySets ==
    {req \cup opt : req \in SUBSET NoDefault,
                    opt \in {o \in SUBSET OtherKeys : Cardinality(o) <= MaxOptional}}
    \cup {req \cup (FieldNames \ NoDefault) : req \in SUBSET NoDefault}

DetectionMappings ==
    UNION {MappingsOn(ks, DetectionChoices) : ks \in DetectionKeySets}

\* Mappings for comparing: complete ones that differ field by field.
CompareChoices ==
    [UNIQUE_VULN_ID |-> {PyStr(<<"9", "9">>), PyStr(<<"1", "0", "0">>)},
     QID |-> {PyStr(<<"1", "2", "3", "4", "5">>), PyStr(<<"7">>)},
     TYPE |-> {Text("Confirmed"), Text("Potential")},
     SEVERITY |-> {PyStr(<<"3">>), PyStr(<<"5">>)},
     STATUS |-> {Text("Active"), Text("Fixed")},
     TIMES_FOUND |-> {PyStr(<<"5">>)}]

CompareMappings ==
    UNION {MappingsOn(NoDefault \cup opt, CompareChoices) : opt \in SUBSET {"TIMES_FOUND"}}

\* Mappings for copying: complete ones, with any of the fields that
\* __post_init__ converts and the one field that copy() leaves out.
CopyKeys == {"QDS", "QDS_FACTORS", "FQDN", "RESULTS", "FIRST_FOUND_DATETIME", "PORT"}

CopyMappings ==
    UNION {MappingsOn(NoDefault \cup opt, DetectionChoices) : opt \in SUBSET CopyKeys}

(***************************************************************************)
(* The state machine: one action per public function.  An invocation       *)
(* starts when none is under way and runs to its end; Return hands the     *)
(* result to the caller, and nothing of the invocation is kept.            *)
(***************************************************************************)
NoInput == [t |-> "none"]

Init ==
    /\ op = "idle"
    /\ input = NoInput
    /\ calls = <<>>
    /\ outcome = PyNone

ManageReports ==
    /\ op = "idle"
    /\ \E action \in Actions, kwargs \in ListKwargs \cup LaunchKwargs,
          reply \in SoftFailures \cup {ConnectionError} :
          LET done == manage_reports(action, kwargs, reply)
          IN  /\ op' = "manage_reports"
              /\ input' = [action |-> action, kwargs |-> kwargs, reply |-> reply]
              /\ calls' = done.calls
              /\ outcome' = done.result

GetReportList ==
    /\ op = "idle"
    /\ \E kwargs \in ListKwargs, reply \in ReportListReplies :
          LET done == get_report_list(kwargs, reply)
          IN  /\ op' = "get_report_list"
              /\ input' = [kwargs |-> kwargs, reply |-> reply]
              /\ calls' = done.calls
              /\ outcome' = done.result

GetTemplateList ==
    /\ op = "idle"
    /\ \E reply \in TemplateListReplies :
          LET done == get_template_list(reply)
          IN  /\ op' = "get_template_list"
              /\ input' = [reply |-> reply]
              /\ calls' = done.calls
              /\ outcome' = done.result

LaunchReport ==
    /\ op = "idle"
    /\ \E template_id \in TemplateIds, kwargs \in LaunchKwargs, reply \in LaunchReplies :
          LET done == launch_report(template_id, kwargs, reply)
          IN  /\ op' = "launch_report"
              /\ input' = [template_id |-> template_id, kwargs |-> kwargs,
                           reply |-> reply]
              /\ calls' = done.calls
              /\ outcome' = done.result

FromDict ==
    /\ op = "idle"
    /\ \E data \in DetectionMappings :
          /\ op' = "from_dict"
          /\ input' = [data |-> data]
          /\ calls' = <<>>
          /\ outcome' = Detection_from_dict(data)

Compare ==
    /\ op = "idle"
    /\ \E m1 \in CompareMappings, m2 \in CompareMappings :
          /\ op' = "compare"
          /\ input' = [a |-> m1, b |-> m2]
          /\ calls' = <<>>
          /\ outcome' = compare(m1, m2)

Copy ==
    /\ op = "idle"
    /\ \E data \in CopyMappings :
          /\ op' = "copy"
          /\ input' = [data |-> data]
          /\ calls' = <<>>
          /\ outcome' = copy_of(data)

Return ==
    /\ op # "idle"
    /\ op' = "idle"
    /\ input' = NoInput
    /\ calls' = <<>>
    /\ outcome' = PyNone

Next ==
    \/ ManageReports
    \/ GetReportList
    \/ GetTemplateList
    \/ LaunchReport
    \/ FromDict
    \/ Compare
    \/ Copy
    \/ Return

Spec == Init /\ [][Next]_vars

(***************************************************************************)
(* Properties.                                                             *)
(***************************************************************************)
TextPath == <<"SIMPLE_RETURN", "RESPONSE", "TEXT">>

\* The reply holds the generic envelope with a message, and nothing else.
OnlyEnvelope(reply) ==
    /\ reply.t = "dict"
    /\ DOMAIN reply.d = {"SIMPLE_RETURN"}
    /\ ~IsExc(GetPath(reply, TextPath))

Raised(exc) == IsExc(outcome) /\ outcome.exc = exc

\* C1: get_report_list, given a reply that holds only the SIMPLE_RETURN
\* envelope with a RESPONSE.TEXT message and no REPORT_LIST_OUTPUT, raises
\* QualysAPIError whose message is exactly that TEXT.
C1_EnvelopeOnlyRaisesApiError ==
    (op = "get_report_list" /\ OnlyEnvelope(input.reply)) =>
        outcome = Raise("QualysAPIError", GetPath(input.reply, TextPath))

\* C2: every action of the reports vocabulary is dispatched by
\* manage_reports as one transport call to module vmdr, the parameter bag as
\* query parameters for list (endpoint get_report_list) and as body payload
\* for the other actions (launch: endpoint launch_report), never in both
\* places; none of the five is rejected as unsupported.
C2_EveryActionDispatched ==
    (op = "manage_reports" /\ input.action \in ReportActions) =>
        /\ ~Raised("NotImplementedError")
        /\ Len(calls) = 1
        /\ calls[1].module = "vmdr"
        /\ input.action = "list" =>
                /\ calls[1].endpoint = "get_report_list"
                /\ calls[1].params # Omitted
                /\ calls[1].payload = Omitted
        /\ input.action = "launch" => calls[1].endpoint = "launch_report"
        /\ input.action # "list" =>
                /\ calls[1].params = Omitted
                /\ calls[1].payload # Omitted

\* The RESPONSE mapping of a SIMPLE_RETURN envelope that carries a TEXT.
HasResponseText(reply) ==
    /\ reply.t = "dict"
    /\ "SIMPLE_RETURN" \in DOMAIN reply.d
    /\ reply.d["SIMPLE_RETURN"].t = "dict"
    /\ "RESPONSE" \in DOMAIN reply.d["SIMPLE_RETURN"].d
    /\ reply.d["SIMPLE_RETURN"].d["RESPONSE"].t = "dict"
    /\ "TEXT" \in DOMAIN reply.d["SIMPLE_RETURN"].d["RESPONSE"].d

ResponseOf(reply) == reply.d["SIMPLE_RETURN"].d["RESPONSE"].d

\* ITEM_LIST, ITEM or VALUE is missing from the RESPONSE mapping r.
IdentifierMissing(r) ==
    \/ "ITEM_LIST" \notin DOMAIN r
    \/ /\ r["ITEM_LIST"].t = "dict"
       /\ "ITEM" \notin DOMAIN r["ITEM_LIST"].d
    \/ /\ r["ITEM_LIST"].t = "dict"
       /\ "ITEM" \in DOMAIN r["ITEM_LIST"].d
       /\ r["ITEM_LIST"].d["ITEM"].t = "dict"
       /\ "VALUE" \notin DOMAIN r["ITEM_LIST"].d["ITEM"].d

\* RESPONSE.ITEM_LIST.ITEM.VALUE is there, a run of decimal digits.
IdentifierPresent(r) ==
    /\ "ITEM_LIST" \in DOMAIN r
    /\ r["ITEM_LIST"].t = "dict"
    /\ "ITEM" \in DOMAIN r["ITEM_LIST"].d
    /\ r["ITEM_LIST"].d["ITEM"].t = "dict"
    /\ "VALUE" \in DOMAIN r["ITEM_LIST"].d["ITEM"].d
    /\ r["ITEM_LIST"].d["ITEM"].d["VALUE"].t = "str"
    /\ r["ITEM_LIST"].d["ITEM"].d["VALUE"].s # <<>>
    /\ AllDigits(r["ITEM_LIST"].d["ITEM"].d["VALUE"].s)

RECURSIVE Positional(_)
\* The number a run of digits writes, by place value.
Positional(s) ==
    IF s = <<>> THEN 0
    ELSE DigitVal(Head(s)) * 10 ^ (Len(s) - 1) + Positional(Tail(s))

\* C3: launch_report, given a SIMPLE_RETURN envelope, returns
\* RESPONSE.ITEM_LIST.ITEM.VALUE as an integer when it is there, and raises
\* QualysAPIError carrying RESPONSE.TEXT, returning nothing, when any of
\* ITEM_LIST, ITEM or VALUE is missing.
C3_LaunchReturnsIdOrSoftFailure ==
    (op = "launch_report" /\ HasResponseText(input.reply)) =>
        LET r == ResponseOf(input.reply)
        IN  /\ IdentifierPresent(r) =>
                outcome = PyInt(Positional(r["ITEM_LIST"].d["ITEM"].d["VALUE"].s))
            /\ IdentifierMissing(r) =>
                outcome = Raise("QualysAPIError", r["TEXT"])

C3_Witness ==
    /\ op = "launch_report"
    /\ HasResponseText(input.reply)
    /\ "ITEM_LIST" \in DOMAIN ResponseOf(input.reply)
    /\ IdentifierMissing(ResponseOf(input.reply))
    /\ Raised("QualysAPIError")
    /\ outcome.msg = NoReportsText

\* The value the docstring of launch_report promises for hide_header.
HideHeaderForced == PyBool(TRUE)

\* C4: every parameter set that launch_report sends carries hide_header
\* with the one forced value, whatever the caller passed for it.
C4_HideHeaderForced ==
    (op = "launch_report" /\ calls # <<>>) =>
        /\ "hide_header" \in DOMAIN calls[1].payload
        /\ calls[1].payload["hide_header"] = HideHeaderForced

\* C5: an invocation of get_report_list, get_template_list or launch_report
\* has made exactly one transport call when it returns or raises.
C5_ExactlyOneCall ==
    op \in {"get_report_list", "get_template_list", "launch_report"} =>
        Len(calls) = 1

C5_Witness ==
    /\ op = "launch_report"
    /\ Raised("QualysAPIError")
    /\ Len(calls) = 1
    /\ calls[1].endpoint = "launch_report"

\* C6: manage_reports, given an action it has no case for, raises
\* NotImplementedError and makes no transport call.
C6_UnknownActionNotImplemented ==
    (op = "manage_reports" /\ input.action \notin {"list", "launch"}) =>
        /\ Raised("NotImplementedError")
        /\ calls = <<>>

C6_Witness ==
    /\ op = "manage_reports"
    /\ input.action \notin ReportActions
    /\ Raised("NotImplementedError")
    /\ calls = <<>>

RequiredFields == {"QID", "SEVERITY", "STATUS", "TYPE"}

\* C7: from_dict, given a mapping with every required field (QID, SEVERITY,
\* STATUS, TYPE) and any subset of the other declared fields, returns a
\* Detection that has every declared field, a field absent from the mapping
\* holding its default.
C7_CompleteInputBuilds ==
    (/\ op = "from_dict"
     /\ RequiredFields \subseteq DOMAIN input.data
     /\ DOMAIN input.data \subseteq FieldNames) =>
        /\ outcome.t = "Detection"
        /\ DOMAIN outcome.f = FieldNames
        /\ \A name \in (FieldNames \ NoDefault) \ DOMAIN input.data :
                outcome.f[name] = Default(name)

\* C8: from_dict, given a mapping that lacks a required field, raises the
\* ValueError that names the required keys and returns no Detection.
C8_IncompleteInputRejected ==
    (/\ op = "from_dict"
     /\ \E name \in RequiredFields : name \notin DOMAIN input.data) =>
        /\ Raised("ValueError")
        /\ outcome.msg = PyStr(<<"Dictionary must contain the following keys">>)

C8_Witness ==
    /\ op = "from_dict"
    /\ "UNIQUE_VULN_ID" \in DOMAIN input.data
    /\ "QID" \notin DOMAIN input.data
    /\ {"SEVERITY", "STATUS", "TYPE"} \subseteq DOMAIN input.data
    /\ Raised("ValueError")

Compared == op = "compare" /\ outcome.t = "comparison"

SameOn(names) == \A name \in names : outcome.a.f[name] = outcome.b.f[name]

RecordsOf(kind, l) == BaseList([i \in 1..Len(l) |-> from_dict(kind, l[i])])

FactorRecords(l) ==
    PyList([i \in 1..Len(l) |-> QDSFactor(l[i].d["@name"], l[i].d["#text"])])

\* C10: a bare mapping m under REPORT, REPORT_TEMPLATE or QDS_FACTOR gives
\* the collection that the one-element list [m] gives, and a list of n
\* mappings gives n records in the order of the list.
C10_SingularPlural ==
    /\ (op = "get_report_list" /\ input.reply.t = "dict"
            /\ "REPORT_LIST_OUTPUT" \in DOMAIN input.reply.d) =>
            LET node == GetPath(input.reply,
                            <<"REPORT_LIST_OUTPUT", "RESPONSE", "REPORT_LIST", "REPORT">>)
            IN  /\ (~IsExc(node) /\ node.t = "dict") =>
                        /\ outcome = RecordsOf("VMDRReport", <<node>>)
                        /\ outcome = get_report_list(input.kwargs,
                                        ReportListOutput(PyList(<<node>>))).result
                /\ (~IsExc(node) /\ node.t = "list") =>
                        outcome = RecordsOf("VMDRReport", node.l)
    /\ (op = "get_template_list" /\ input.reply.t = "dict"
            /\ "REPORT_TEMPLATE_LIST" \in DOMAIN input.reply.d) =>
            LET node == GetPath(input.reply, <<"REPORT_TEMPLATE_LIST", "REPORT_TEMPLATE">>)
            IN  /\ (~IsExc(node) /\ node.t = "dict") =>
                        /\ outcome = RecordsOf("ReportTemplate", <<node>>)
                        /\ outcome = get_template_list(
                                        TemplateListOutput(PyList(<<node>>))).result
                /\ (~IsExc(node) /\ node.t = "list") =>
                        outcome = RecordsOf("ReportTemplate", node.l)
    /\ (op = "from_dict" /\ outcome.t = "Detection"
            /\ "QDS_FACTORS" \in DOMAIN input.data) =>
            LET node == input.data["QDS_FACTORS"].d["QDS_FACTOR"]
                plural == SetItem(input.data, "QDS_FACTORS",
                                  PyDict([QDS_FACTOR |-> PyList(<<node>>)]))
            IN  /\ node.t = "dict" =>
                        /\ outcome.f["QDS_FACTORS"] = FactorRecords(<<node>>)
                        /\ outcome = Detection_from_dict(plural)
                /\ node.t = "list" =>
                        outcome.f["QDS_FACTORS"] = FactorRecords(node.l)

C10_Witness ==
    /\ op = "from_dict"
    /\ outcome.t = "Detection"
    /\ "QDS_FACTORS" \in DOMAIN input.data
    /\ input.data["QDS_FACTORS"].d["QDS_FACTOR"] = PyList(<<FactorA, FactorB>>)
    /\ outcome.f["QDS_FACTORS"] =
            PyList(<<QDSFactor(Text("A"), PyStr(<<"1">>)),
                     QDSFactor(Text("B"), PyStr(<<"2">>))>>)

\* C11: copy() of any constructed Detection, its QDS and QDS_FACTORS
\* converted or not, returns a Detection whose to_dict() agrees with the
\* original's on every field but FQDN, and whose FQDN is the default.
C11_CopyCarriesAllButFqdn ==
    op = "copy" =>
        /\ outcome.t = "copied"
        /\ \A name \in ToDictKeys \ {"FQDN"} :
                to_dict(outcome.copy)[name] = to_dict(outcome.original)[name]
        /\ to_dict(outcome.copy)["FQDN"] = Default("FQDN")

====
